---- MODULE Spec2Model ----
(***************************************************************************)
(* State-machine model of the rag-engine repository:                       *)
(*   - src/ingest.py    AdvancedDocumentIngestor (incremental ingestion)   *)
(*   - src/rag_chain.py AdvancedRAGChain (conversational query engine)     *)
(* Specifications: Spec (ingestion runs over a folder that the operator    *)
(* edits between runs), SpecCrash (the same, with runs that may be         *)
(* interrupted at any step) and SpecQuery (queries and memory resets       *)
(* against one AdvancedRAGChain instance).                                 *)
(***************************************************************************)
EXTENDS Integers, Sequences, FiniteSets, Bags, TLC

\* ------------------------------------------------------------------ bounds
MaxRuns == 2
MaxEdits == 2
MaxQueries == 3
MaxDocs == 2
MaxTasks == 3
MaxPages == 3

\* ------------------------------------------------------- program constants
DefaultChunkSize == 800
DefaultChunkOverlap == 100
LargeChunkSize == 1200
LargeChunkOverlap == 150
LargeDocThreshold == 5000
MemoryMaxTokenLimit == 800

\* ------------------------------------------------------------- file system
PDF == ".pdf"
TXT == ".txt"
Extensions == {PDF, TXT}

\* A file path relative to the ingested folder is <<stem, extension>>.
WalkOrder == << <<"a", PDF>>, <<"b", PDF>>, <<"n", TXT>> >>
FileNames == {WalkOrder[k] : k \in 1..Len(WalkOrder)}

\* str.endswith(ext) for the extensions of the model.
EndsWith(file, ext) == file[2] = ext

\* The bytes of a file, as far as the ingestor can tell them apart:
\* readable (open() succeeds), parses (PyPDFLoader.load succeeds), len (number
\* of characters of extracted text), rev (the remaining bytes).
Absent == [kind |-> "absent", readable |-> FALSE, parses |-> FALSE, len |-> 0, rev |-> 0]
Unreadable == [kind |-> "file", readable |-> FALSE, parses |-> TRUE, len |-> 0, rev |-> 1]
Malformed == [kind |-> "file", readable |-> TRUE, parses |-> FALSE, len |-> 0, rev |-> 1]
Text(l, r) == [kind |-> "file", readable |-> TRUE, parses |-> TRUE, len |-> l, rev |-> r]
\* What the operator writes: a.pdf is unreadable, malformed, without text, or
\* one of two revisions of a two-chunk document; b.pdf is malformed or a
\* two-chunk document; the bytes of any other file are never parsed.
Contents(f) ==
    IF f = <<"a", ".pdf">>
    THEN {Unreadable, Malformed, Text(0, 1), Text(1500, 1), Text(1500, 2)}
    ELSE IF f[2] = ".pdf"
    THEN {Malformed, Text(1500, 1)}
    ELSE {Text(1500, 1)}

\* The extension lists a run is started with: the default, a second
\* supported extension, both, and a list that names one extension twice.
ExtLists == {<<PDF>>, <<TXT>>, <<PDF, TXT>>, <<PDF, PDF>>}

NoHash == <<>>
NoFile == <<"", "">>
EmptyLog == [k \in {} |-> 0]

VARIABLES
    folder,            \* file path -> content (or Absent)
    disk,              \* processed_files.json: [kind, log]
    index,             \* the Qdrant collection: a bag of chunk payloads
    pc,                \* position of the ingest run
    file_extensions,   \* arguments of the current/last run
    force_reprocess,
    processed_log,     \* locals of ingest_documents_with_deduplication
    all_files,
    i,
    all_chunks,
    stats,
    classes,           \* history: per loop iteration, the branch taken
    batch,             \* history: outcome of the Qdrant step of the run
    outcome,           \* history: how the last run ended
    start_manifest,    \* history: the manifest file when the run started
    prev,              \* history: summary of the previous run
    dirty,             \* history: folder edited since the last run started
    runs,
    edits

ingestVars == <<folder, disk, index, pc, file_extensions, force_reprocess,
                processed_log, all_files, i, all_chunks, stats, classes, batch,
                outcome, start_manifest, prev, dirty, runs, edits>>

VARIABLES
    qstate,            \* step of AdvancedRAGChain.query
    question,          \* the question being answered
    docs,              \* documents retrieved, then compressed
    answer,            \* the generated answer
    memory,            \* ConversationSummaryBufferMemory: messages, summary
    result,            \* what the last query() call returned
    failure,           \* history: the step of the last call that raised
    queries

queryVars == <<qstate, question, docs, answer, memory, result, failure, queries>>

\* The chat sessions of ui.py: the handlers are coroutines of one event loop.
VARIABLES
    started,           \* sessions whose on_chat_start has run
    user_session,      \* cl.user_session of each session: its rag_chain (0: none)
    chain_memory,      \* the memory of every AdvancedRAGChain created, by instance
    tasks,             \* the main(message) coroutines, in order of arrival
    running,           \* the coroutine that holds the event loop (0: none)
    turns              \* history: the turns each session appended since its last clear

sessionVars == <<started, user_session, chain_memory, tasks, running, turns>>

\* One call of enhanced_text_splitting.
VARIABLES
    documents,         \* the argument: the length of each document's page_content
    splitter,          \* the splitter chosen for each document handled so far
    split_chunks       \* the number of chunks each of them gave

splitVars == <<documents, splitter, split_chunks>>

\* What the ingest steps, the steps of one engine, the handlers and the
\* splitting leave alone.
notIngestVars == <<queryVars, sessionVars, splitVars>>
notQueryVars == <<ingestVars, sessionVars, splitVars>>
notSessionVars == <<ingestVars, queryVars, splitVars>>
notSplitVars == <<ingestVars, queryVars, sessionVars>>

vars == <<ingestVars, queryVars, sessionVars, splitVars>>

\* ------------------------------------------------------------ pure helpers
RECURSIVE Concat(_)
Concat(ss) == IF ss = <<>> THEN <<>> ELSE Head(ss) \o Concat(Tail(ss))

\* get_file_hash: md5 over the file's bytes (injective on the contents of the
\* model; raises when the file cannot be opened).
get_file_hash(content) == <<"md5", content.parses, content.len, content.rev>>

\* RecursiveCharacterTextSplitter: number of chunks of a text of length len.
SplitCount(len, size, overlap) ==
    IF len = 0 THEN 0
    ELSE IF len <= size THEN 1
    ELSE 1 + ((len - size) + (size - overlap) - 1) \div (size - overlap)

\* Lines 67-78: the two splitters.
splitters ==
    [default |-> [chunk_size |-> DefaultChunkSize, chunk_overlap |-> DefaultChunkOverlap],
     large |-> [chunk_size |-> LargeChunkSize, chunk_overlap |-> LargeChunkOverlap]]

\* A choice that sends a document of exactly the threshold length to 'large'.
ChooseSplitter_AtThreshold(doc_length) ==
    IF doc_length >= LargeDocThreshold THEN "large" ELSE "default"

\* Line 85: the splitter of a document, by the length of its page_content.
ChooseSplitter(doc_length) ==
    IF doc_length > LargeDocThreshold THEN "large" ELSE "default"

\* enhanced_text_splitting on the single document of a file: number of chunks.
enhanced_text_splitting(doc_length) ==
    LET chosen == splitters[ChooseSplitter(doc_length)]
    IN  SplitCount(doc_length, chosen.chunk_size, chosen.chunk_overlap)

\* The document lengths of the model: around the threshold, one chunk, many.
DocLengths ==
    {0, DefaultChunkSize, LargeDocThreshold - 1, LargeDocThreshold,
     LargeDocThreshold + 1, 2 * LargeDocThreshold}

ChunksOf(file_key, file_hash, n) ==
    SetToBag({[source_file |-> file_key, file_hash |-> file_hash, chunk_index |-> k] :
                k \in 0..(n - 1)})

\* os.walk + endswith, once per extension of the list.
Enumerate(exts) ==
    Concat([e \in 1..Len(exts) |->
              SelectSeq(WalkOrder,
                        LAMBDA f : folder[f].kind = "file" /\ EndsWith(f, exts[e]))])

\* load_processed_files_log; the caller handles the unparsable file.
LoadableManifest(d) == d.kind # "truncated"
load_processed_files_log(d) == IF d.kind = "json" THEN d.log ELSE EmptyLog

EmptyStats(total) ==
    [total_files |-> total, new_files |-> 0, updated_files |-> 0,
     skipped_files |-> 0, total_chunks |-> 0, processing_errors |-> <<>>]

\* The branch of lines 147-158.
Decide(file_key, file_hash, log, force) ==
    IF ~force /\ file_key \in DOMAIN log
    THEN IF log[file_key].hash = file_hash THEN "skip" ELSE "updated"
    ELSE "new"

Counter(class) ==
    IF class = "skip" THEN "skipped_files"
    ELSE IF class = "updated" THEN "updated_files" ELSE "new_files"

FileError(file_path) == [stage |-> "file", file |-> file_path]
QdrantError == [stage |-> "qdrant", file |-> NoFile]

\* A handler that drops the error instead of listing it.
HandleFileError_Swallowed(st, file_path) == st

\* Lines 186-189: the error of one file is listed and the loop goes on.
HandleFileError(st, file_path) ==
    [st EXCEPT !.stats.processing_errors = Append(@, FileError(file_path))]

\* One iteration of the loop of lines 142-189 over the run's locals
\* st = [processed_log, all_chunks, stats, classes].
LoopBody(st, file_path, content, force) ==
    LET file_key == file_path
        file_hash == get_file_hash(content)
        stored == IF file_key \in DOMAIN st.processed_log
                  THEN st.processed_log[file_key].hash ELSE NoHash
        class == Decide(file_key, file_hash, st.processed_log, force)
        n == enhanced_text_splitting(content.len)
        seen(c, h) == [file |-> file_path, class |-> c, hash |-> h, stored |-> stored]
        counted == [st EXCEPT !.stats[Counter(class)] = @ + 1,
                              !.classes = Append(@, seen(class, file_hash))]
    IN  IF ~content.readable
        THEN \* get_file_hash raises: caught at line 186
             HandleFileError([st EXCEPT !.classes = Append(@, seen("unhashed", NoHash))],
                             file_path)
        ELSE IF class = "skip"
        THEN counted
        ELSE IF ~EndsWith(file_path, PDF)
        THEN \* line 161: only .pdf files are loaded
             counted
        ELSE IF ~content.parses
        THEN \* loader.load() raises: caught at line 186
             HandleFileError(counted, file_path)
        ELSE [counted EXCEPT
                !.all_chunks = @ (+) ChunksOf(file_key, file_hash, n),
                !.processed_log = (file_key :> [hash |-> file_hash, chunks_count |-> n]) @@ @]

Locals == [processed_log |-> processed_log, all_chunks |-> all_chunks,
           stats |-> stats, classes |-> classes]

\* A Qdrant step that goes on to save the log after a failure.
IngestIntoQdrant_SavesAnyway(ok, idx, chunks, st) ==
    IF ok
    THEN [index |-> idx (+) chunks,
          stats |-> [st EXCEPT !.total_chunks = BagCardinality(chunks)],
          pc |-> "save", batch |-> "ok"]
    ELSE [index |-> idx,
          stats |-> [st EXCEPT !.processing_errors = Append(@, QdrantError)],
          pc |-> "save", batch |-> "failed"]

\* A Qdrant step that reports the chunk count of a batch that failed.
IngestIntoQdrant_CountsOnFailure(ok, idx, chunks, st) ==
    IF ok
    THEN [index |-> idx (+) chunks,
          stats |-> [st EXCEPT !.total_chunks = BagCardinality(chunks)],
          pc |-> "save", batch |-> "ok"]
    ELSE [index |-> idx,
          stats |-> [st EXCEPT !.total_chunks = BagCardinality(chunks),
                               !.processing_errors = Append(@, QdrantError)],
          pc |-> "idle", batch |-> "failed"]

\* Lines 195-214, the Qdrant step: ok = Qdrant.from_documents returned.
\* from_documents adds every chunk as a new point (fresh ids).
IngestIntoQdrant(ok, idx, chunks, st) ==
    IF ok
    THEN [index |-> idx (+) chunks,
          stats |-> [st EXCEPT !.total_chunks = BagCardinality(chunks)],
          pc |-> "save", batch |-> "ok"]
    ELSE [index |-> idx,
          stats |-> [st EXCEPT !.processing_errors = Append(@, QdrantError)],
          pc |-> "idle", batch |-> "failed"]

\* The file keys a run classified new or updated.
NewOrUpdated(cs) ==
    {cs[k].file : k \in {j \in 1..Len(cs) : cs[j].class \in {"new", "updated"}}}

\* No previous run to compare with: none has returned, or the folder was
\* edited since.
NoPrev == [valid |-> FALSE, exts |-> <<>>, force |-> FALSE, clean |-> FALSE,
           batch |-> "none", targets |-> {}, vectors |-> 0]

\* ------------------------------------------------------------ query engine
\* Questions and answers by their token counts; the LLM is capped at
\* max_tokens = 1000 per completion.
Questions == {[text |-> "q1", tokens |-> 100], [text |-> "q2", tokens |-> 500]}
Answers == {[text |-> "a1", tokens |-> 300], [text |-> "a2", tokens |-> 900]}
SummaryTokens == {100, 600}
NoQuestion == [text |-> "", tokens |-> 0]
NoAnswer == [text |-> "", tokens |-> 0]
EmptyMemory == [messages |-> <<>>, moving_summary_buffer |-> 0]
NoResult == [answer |-> "", source_documents |-> <<>>, chat_history |-> <<>>,
             metadata |-> [none |-> TRUE]]

HumanMessage(q) == [type |-> "human", text |-> q.text, tokens |-> q.tokens]
AIMessage(a) == [type |-> "ai", text |-> a.text, tokens |-> a.tokens]

RECURSIVE NumTokens(_)
NumTokens(messages) ==
    IF messages = <<>> THEN 0 ELSE Head(messages).tokens + NumTokens(Tail(messages))

\* ConversationSummaryBufferMemory.prune: pop the oldest messages while the
\* buffer is over max_token_limit.
RECURSIVE Pruned(_)
Pruned(messages) ==
    IF NumTokens(messages) > MemoryMaxTokenLimit THEN Pruned(Tail(messages)) ELSE messages

\* save_context: append the turn, prune, then summarise what was pruned
\* (summarised = the summary call returned; summary = its size in tokens).
SaveContext(mem, q, a, summarised, summary) ==
    LET appended == mem.messages \o <<HumanMessage(q), AIMessage(a)>>
    IN  IF NumTokens(appended) <= MemoryMaxTokenLimit
        THEN [mem EXCEPT !.messages = appended]
        ELSE [messages |-> Pruned(appended),
              moving_summary_buffer |-> IF summarised THEN summary
                                        ELSE mem.moving_summary_buffer]

NeedsSummary(mem, q, a) ==
    NumTokens(mem.messages \o <<HumanMessage(q), AIMessage(a)>>) > MemoryMaxTokenLimit

\* Lines 119-131: the dictionary of a successful call.
EnhancedResult(a, source_documents, mem) ==
    [answer |-> a.text,
     source_documents |-> source_documents,
     chat_history |-> mem.messages,
     metadata |-> [timestamp |-> "now", tokens_used |-> "cb.total_tokens",
                   cost |-> "cb.total_cost", num_sources |-> Len(source_documents)]]

\* An error dictionary without the 'error' key.
ErrorResult_NoErrorKey(e) ==
    [answer |-> <<"Sorry, I encountered an error: ", e>>,
     source_documents |-> <<>>,
     chat_history |-> <<>>,
     metadata |-> [timestamp |-> "now"]]

\* Lines 133-139: the dictionary of a call that raised inside the try.
ErrorResult(e) ==
    [answer |-> <<"Sorry, I encountered an error: ", e>>,
     source_documents |-> <<>>,
     chat_history |-> <<>>,
     metadata |-> [error |-> e]]

\* ------------------------------------------------------------ chat sessions
Sessions == {"s1", "s2"}
\* The message kinds main tells apart: /clear, /stats, anything else.
Kinds == {"clear", "stats", "query"}
NoChain == 0
NoTask == 0
NoSnapshot == <<"none">>
\* A new AdvancedRAGChain: an empty memory (session: the session that made it).
NewChain(s) == [session |-> s, messages |-> <<>>]

\* A main(message) coroutine that has just been scheduled.
NewTask(s, kind) ==
    [session |-> s, kind |-> kind, at |-> "start", rag_chain |-> NoChain,
     snapshot |-> NoSnapshot]
\* A coroutine that has returned: its frame is gone.
DoneTask(task) ==
    [session |-> "", kind |-> "", at |-> "done", rag_chain |-> NoChain,
     snapshot |-> NoSnapshot]

\* The turn a query appends: the question of its message and the answer.
Turn(t) == <<tasks[t].session, t>>

\* Line 124 awaits nothing: query() runs to its return on the event loop, so
\* the loop stays with the calling coroutine between the steps of the query.
LoopDuringQuery(t) == t

\* ------------------------------------------------------------------- state
\* The installation is fresh, or an earlier process has ingested the first
\* revision of a.pdf (the state after WriteFile, StartRun(<<PDF>>, FALSE),
\* ProcessFile, BatchIngest(TRUE), SaveOpen, SaveDump).
Ingested == <<"a", PDF>>
InitStore ==
    \/ /\ folder = [f \in FileNames |-> Absent]
       /\ disk = [kind |-> "absent", log |-> EmptyLog]
       /\ index = EmptyBag
    \/ /\ folder = [f \in FileNames |-> IF f = Ingested THEN Text(1500, 1) ELSE Absent]
       /\ disk = [kind |-> "json",
                  log |-> (Ingested :>
                             [hash |-> get_file_hash(Text(1500, 1)),
                              chunks_count |-> enhanced_text_splitting(1500)])]
       /\ index = ChunksOf(Ingested, get_file_hash(Text(1500, 1)),
                           enhanced_text_splitting(1500))

InitIngest ==
    /\ InitStore
    /\ pc = "idle"
    /\ file_extensions = <<>>
    /\ force_reprocess = FALSE
    /\ processed_log = EmptyLog
    /\ all_files = <<>>
    /\ i = 1
    /\ all_chunks = EmptyBag
    /\ stats = EmptyStats(0)
    /\ classes = <<>>
    /\ batch = "none"
    /\ outcome = "none"
    /\ start_manifest = disk
    /\ prev = NoPrev
    /\ dirty = FALSE
    /\ runs = 0
    /\ edits = 0

InitQuery ==
    /\ qstate = "Idle"
    /\ question = NoQuestion
    /\ docs = <<>>
    /\ answer = NoAnswer
    /\ memory = EmptyMemory
    /\ result = NoResult
    /\ failure = "none"
    /\ queries = 0

\* No session has connected.
InitSessions ==
    /\ started = {}
    /\ user_session = [s \in Sessions |-> NoChain]
    /\ chain_memory = <<>>
    /\ tasks = <<>>
    /\ running = NoTask
    /\ turns = [s \in Sessions |-> {}]

\* enhanced_text_splitting has not been called.
InitSplit ==
    /\ documents = <<>>
    /\ splitter = <<>>
    /\ split_chunks = <<>>

Init == InitIngest /\ InitQuery /\ InitSessions /\ InitSplit

\* The operator creates or overwrites a file of the folder between runs.
WriteFile(f, c) ==
    /\ pc = "idle"
    /\ edits < MaxEdits
    /\ folder[f] # c
    /\ folder' = [folder EXCEPT ![f] = c]
    /\ dirty' = TRUE
    /\ edits' = edits + 1
    /\ UNCHANGED <<disk, index, pc, file_extensions, force_reprocess, processed_log,
                   all_files, i, all_chunks, stats, classes, batch, outcome,
                   start_manifest, prev, runs>>
    /\ UNCHANGED notIngestVars

\* Lines 111-140: load the manifest, enumerate the files. json.load raises on
\* an unparsable file and nothing catches it.
StartRun(exts, force) ==
    /\ pc = "idle"
    /\ runs < MaxRuns
    /\ runs' = runs + 1
    /\ file_extensions' = exts
    /\ force_reprocess' = force
    /\ start_manifest' = disk
    /\ prev' = IF outcome = "returned" /\ ~dirty
                THEN [valid |-> TRUE, exts |-> file_extensions, force |-> force_reprocess,
                      clean |-> stats.processing_errors = <<>>, batch |-> batch,
                      targets |-> NewOrUpdated(classes),
                      vectors |-> BagCardinality(index)]
                ELSE NoPrev
    /\ dirty' = FALSE
    /\ classes' = <<>>
    /\ batch' = "none"
    /\ all_chunks' = EmptyBag
    /\ i' = 1
    /\ IF LoadableManifest(disk)
       THEN /\ processed_log' = load_processed_files_log(disk)
            /\ all_files' = Enumerate(exts)
            /\ stats' = EmptyStats(Len(Enumerate(exts)))
            /\ pc' = IF Enumerate(exts) = <<>> THEN "batch" ELSE "loop"
            /\ outcome' = "running"
       ELSE /\ processed_log' = EmptyLog
            /\ all_files' = <<>>
            /\ stats' = EmptyStats(0)
            /\ pc' = "idle"
            /\ outcome' = "raised"
    /\ UNCHANGED <<folder, disk, index, edits>>
    /\ UNCHANGED notIngestVars

\* Lines 142-189: one iteration of the loop.
ProcessFile ==
    /\ pc = "loop"
    /\ LET st == LoopBody(Locals, all_files[i], folder[all_files[i]], force_reprocess)
       IN  /\ processed_log' = st.processed_log
           /\ all_chunks' = st.all_chunks
           /\ stats' = st.stats
           /\ classes' = st.classes
    /\ i' = i + 1
    /\ pc' = IF i = Len(all_files) THEN "batch" ELSE "loop"
    /\ UNCHANGED <<folder, disk, index, file_extensions, force_reprocess, all_files,
                   batch, outcome, start_manifest, prev, dirty, runs, edits>>
    /\ UNCHANGED notIngestVars

\* Lines 191-193: nothing to ingest, return the statistics.
ReturnEmpty ==
    /\ pc = "batch"
    /\ all_chunks = EmptyBag
    /\ pc' = "idle"
    /\ batch' = "empty"
    /\ outcome' = "returned"
    /\ UNCHANGED <<folder, disk, index, file_extensions, force_reprocess, processed_log,
                   all_files, i, all_chunks, stats, classes, start_manifest, prev,
                   dirty, runs, edits>>
    /\ UNCHANGED notIngestVars

\* Lines 195-206 and 211-216: embed and upsert the accumulated chunks.
BatchIngest(ok) ==
    /\ pc = "batch"
    /\ all_chunks # EmptyBag
    /\ LET r == IngestIntoQdrant(ok, index, all_chunks, stats)
       IN  /\ index' = r.index
           /\ stats' = r.stats
           /\ pc' = r.pc
           /\ batch' = r.batch
           /\ outcome' = IF r.pc = "idle" THEN "returned" ELSE outcome
    /\ UNCHANGED <<folder, disk, file_extensions, force_reprocess, processed_log,
                   all_files, i, all_chunks, classes, start_manifest, prev, dirty,
                   runs, edits>>
    /\ UNCHANGED notIngestVars

\* Line 36: open(..., 'w') truncates processed_files.json.
SaveOpen ==
    /\ pc = "save"
    /\ disk' = [kind |-> "truncated", log |-> EmptyLog]
    /\ pc' = "dump"
    /\ UNCHANGED <<folder, index, file_extensions, force_reprocess, processed_log,
                   all_files, i, all_chunks, stats, classes, batch, outcome,
                   start_manifest, prev, dirty, runs, edits>>
    /\ UNCHANGED notIngestVars

\* Line 37 then line 216: json.dump writes the log, the run returns.
SaveDump ==
    /\ pc = "dump"
    /\ disk' = [kind |-> "json", log |-> processed_log]
    /\ pc' = "idle"
    /\ outcome' = "returned"
    /\ UNCHANGED <<folder, index, file_extensions, force_reprocess, processed_log,
                   all_files, i, all_chunks, stats, classes, batch,
                   start_manifest, prev, dirty, runs, edits>>
    /\ UNCHANGED notIngestVars

\* The run is interrupted (process killed, KeyboardInterrupt): its locals are
\* lost, the files and the collection stay as they are.
Interrupt ==
    /\ pc # "idle"
    /\ pc' = "idle"
    /\ outcome' = "interrupted"
    /\ processed_log' = EmptyLog
    /\ all_files' = <<>>
    /\ i' = 1
    /\ all_chunks' = EmptyBag
    /\ stats' = EmptyStats(0)
    /\ classes' = <<>>
    /\ UNCHANGED <<folder, disk, index, file_extensions, force_reprocess, batch,
                   start_manifest, prev, dirty, runs, edits>>
    /\ UNCHANGED notIngestVars

\* Line 116 enters the chain: the memory is read, retrieval starts.
QueryStart(q) ==
    /\ qstate = "Idle"
    /\ queries < MaxQueries
    /\ queries' = queries + 1
    /\ qstate' = "Retrieving"
    /\ question' = q
    /\ docs' = <<>>
    /\ answer' = NoAnswer
    /\ failure' = "none"
    /\ UNCHANGED <<memory, result>>
    /\ UNCHANGED notQueryVars

\* The except branch of query: the call returns the error dictionary.
QueryFails(e) ==
    /\ qstate' = "Idle"
    /\ failure' = e
    /\ result' = ErrorResult(e)
    /\ UNCHANGED <<question, docs, answer, queries>>
    /\ UNCHANGED notQueryVars

\* A retrieval whose documents go to the prompt uncompressed.
Retrieve_SkipsCompression(ok, n) ==
    /\ qstate = "Retrieving"
    /\ IF ok
       THEN /\ docs' = [k \in 1..n |-> k]
            /\ qstate' = "Generating"
            /\ UNCHANGED <<question, answer, memory, result, failure, queries>>
            /\ UNCHANGED notQueryVars
       ELSE QueryFails("retrieval") /\ UNCHANGED memory

\* The MMR search of the base retriever: up to k documents.
Retrieve(ok, n) ==
    /\ qstate = "Retrieving"
    /\ IF ok
       THEN /\ docs' = [k \in 1..n |-> k]
            /\ qstate' = "Compressing"
            /\ UNCHANGED <<question, answer, memory, result, failure, queries>>
            /\ UNCHANGED notQueryVars
       ELSE QueryFails("retrieval") /\ UNCHANGED memory

\* LLMChainExtractor: keeps the documents with a relevant span, in rank order.
Compress(ok, kept) ==
    /\ qstate = "Compressing"
    /\ IF ok
       THEN /\ docs' = SelectSeq(docs, LAMBDA d : d \in kept)
            /\ qstate' = "Generating"
            /\ UNCHANGED <<question, answer, memory, result, failure, queries>>
            /\ UNCHANGED notQueryVars
       ELSE QueryFails("compression") /\ UNCHANGED memory

\* The combine-documents chain writes the answer.
Generate(ok, a) ==
    /\ qstate = "Generating"
    /\ IF ok
       THEN /\ answer' = a
            /\ qstate' = "UpdatingMemory"
            /\ UNCHANGED <<question, docs, memory, result, failure, queries>>
            /\ UNCHANGED notQueryVars
       ELSE QueryFails("generation") /\ UNCHANGED memory

\* The chain saves the turn to the memory, then lines 119-131 build the result.
\* The summary call is made only when the buffer is over the limit.
UpdateMemory(ok, summary) ==
    /\ qstate = "UpdatingMemory"
    /\ memory' = SaveContext(memory, question, answer, ok, summary)
    /\ IF ok \/ ~NeedsSummary(memory, question, answer)
       THEN /\ qstate' = "Idle"
            /\ result' = EnhancedResult(answer, docs, memory')
            /\ UNCHANGED <<question, docs, answer, failure, queries>>
            /\ UNCHANGED notQueryVars
       ELSE QueryFails("memory")

\* clear_memory (the /clear command).
ClearMemory ==
    /\ qstate = "Idle"
    /\ memory # EmptyMemory
    /\ memory' = EmptyMemory
    /\ UNCHANGED <<qstate, question, docs, answer, result, failure, queries>>
    /\ UNCHANGED notQueryVars

\* ui.py on_chat_start: a chain of its own for the session, unless the
\* constructor raises; then the welcome (or the error) message is awaited.
on_chat_start(s, ok) ==
    /\ running = NoTask
    /\ s \notin started
    /\ started' = started \cup {s}
    /\ IF ok
       THEN /\ chain_memory' = Append(chain_memory, NewChain(s))
            /\ user_session' = [user_session EXCEPT ![s] = Len(chain_memory) + 1]
       ELSE UNCHANGED <<chain_memory, user_session>>
    /\ UNCHANGED <<tasks, running, turns>>
    /\ UNCHANGED notSessionVars

\* A message of a started session arrives: main(message) is scheduled.
on_message(s, kind) ==
    /\ running = NoTask
    /\ s \in started
    /\ Len(tasks) < MaxTasks
    /\ tasks' = Append(tasks, NewTask(s, kind))
    /\ UNCHANGED <<started, user_session, chain_memory, running, turns>>
    /\ UNCHANGED notSessionVars

\* main, from its first line to its first await: /clear clears the memory of
\* the session's chain, /stats reads it, a question fetches the chain and
\* awaits the "reinitializing" or the "processing" message.
main_start(t) ==
    /\ running = NoTask
    /\ tasks[t].at = "start"
    /\ LET s == tasks[t].session
           rag_chain == user_session[s]
       IN  CASE tasks[t].kind = "clear" ->
                  /\ tasks' = [tasks EXCEPT ![t] = DoneTask(@)]
                  /\ chain_memory' =
                        IF rag_chain = NoChain THEN chain_memory
                        ELSE [chain_memory EXCEPT ![rag_chain].messages = <<>>]
                  /\ turns' = IF rag_chain = NoChain THEN turns
                              ELSE [turns EXCEPT ![s] = {}]
              [] tasks[t].kind = "stats" ->
                  /\ tasks' = [tasks EXCEPT ![t] = DoneTask(@)]
                  /\ UNCHANGED <<chain_memory, turns>>
              [] tasks[t].kind = "query" ->
                  /\ tasks' = [tasks EXCEPT
                                 ![t].at = IF rag_chain = NoChain THEN "reinit"
                                           ELSE "thinking",
                                 ![t].rag_chain = rag_chain]
                  /\ UNCHANGED <<chain_memory, turns>>
    /\ UNCHANGED <<started, user_session, running>>
    /\ UNCHANGED notSessionVars

\* Lines 93-112: the session had no chain; a new one is made and stored, the
\* user is asked to repeat the question, and main returns.
main_reinit(t, ok) ==
    /\ running = NoTask
    /\ tasks[t].at = "reinit"
    /\ tasks' = [tasks EXCEPT ![t] = DoneTask(@)]
    /\ IF ok
       THEN /\ chain_memory' = Append(chain_memory, NewChain(tasks[t].session))
            /\ user_session' = [user_session EXCEPT
                                  ![tasks[t].session] = Len(chain_memory) + 1]
       ELSE UNCHANGED <<chain_memory, user_session>>
    /\ UNCHANGED <<started, running, turns>>
    /\ UNCHANGED notSessionVars

\* Line 124 calls query: the chain reads the memory for the prompt.
query_snapshot(t) ==
    /\ running = NoTask
    /\ tasks[t].at = "thinking"
    /\ tasks' = [tasks EXCEPT ![t].at = "generating",
                              ![t].snapshot = chain_memory[tasks[t].rag_chain].messages]
    /\ running' = LoopDuringQuery(t)
    /\ UNCHANGED <<started, user_session, chain_memory, turns>>
    /\ UNCHANGED notSessionVars

\* Retrieval, compression and generation; a failure makes query return the
\* error dictionary, which main shows.
query_generate(t, ok) ==
    /\ running \in {NoTask, t}
    /\ tasks[t].at = "generating"
    /\ IF ok
       THEN /\ tasks' = [tasks EXCEPT ![t].at = "appending"]
            /\ running' = LoopDuringQuery(t)
       ELSE /\ tasks' = [tasks EXCEPT ![t] = DoneTask(@)]
            /\ running' = NoTask
    /\ UNCHANGED <<started, user_session, chain_memory, turns>>
    /\ UNCHANGED notSessionVars

\* The chain saves the turn to the memory and query returns to main.
query_append(t) ==
    /\ running \in {NoTask, t}
    /\ tasks[t].at = "appending"
    /\ chain_memory' = [chain_memory EXCEPT
                          ![tasks[t].rag_chain].messages = Append(@, Turn(t))]
    /\ turns' = [turns EXCEPT ![tasks[t].session] = @ \cup {Turn(t)}]
    /\ tasks' = [tasks EXCEPT ![t].at = "returned"]
    /\ running' = t
    /\ UNCHANGED <<started, user_session>>
    /\ UNCHANGED notSessionVars

\* main formats the result and awaits the update of its message.
main_reply(t) ==
    /\ running = t
    /\ tasks[t].at = "returned"
    /\ tasks' = [tasks EXCEPT ![t] = DoneTask(@)]
    /\ running' = NoTask
    /\ UNCHANGED <<started, user_session, chain_memory, turns>>
    /\ UNCHANGED notSessionVars


NextQuery ==
    \/ \E q \in Questions : QueryStart(q)
    \/ \E ok \in BOOLEAN, n \in 0..MaxDocs : Retrieve(ok, n)
    \/ \E ok \in BOOLEAN, kept \in SUBSET (1..MaxDocs) : Compress(ok, kept)
    \/ \E ok \in BOOLEAN, a \in Answers : Generate(ok, a)
    \/ \E ok \in BOOLEAN, summary \in SummaryTokens : UpdateMemory(ok, summary)
    \/ ClearMemory

SpecQuery == Init /\ [][NextQuery]_vars

Next ==
    \/ \E f \in FileNames : \E c \in Contents(f) : WriteFile(f, c)
    \/ \E exts \in ExtLists, force \in BOOLEAN : StartRun(exts, force)
    \/ ProcessFile
    \/ ReturnEmpty
    \/ \E ok \in BOOLEAN : BatchIngest(ok)
    \/ SaveOpen
    \/ SaveDump

Spec == Init /\ [][Next]_vars

\* The same runs, which may also be interrupted at any step.
NextCrash == Next \/ Interrupt

SpecCrash == Init /\ [][NextCrash]_vars

\* enhanced_text_splitting is called with the documents of a file.
SplitDocuments(pages) ==
    /\ documents = <<>>
    /\ pages # <<>>
    /\ documents' = pages
    /\ UNCHANGED <<splitter, split_chunks>>
    /\ UNCHANGED notSplitVars

\* Lines 82-98: one pass of the loop over the documents.
SplitNext ==
    /\ Len(splitter) < Len(documents)
    /\ LET doc_length == documents[Len(splitter) + 1]
       IN  /\ splitter' = Append(splitter, ChooseSplitter(doc_length))
           /\ split_chunks' = Append(split_chunks, enhanced_text_splitting(doc_length))
    /\ UNCHANGED documents
    /\ UNCHANGED notSplitVars

\* The lists of at most MaxPages documents.
DocumentLists == UNION {[1..n -> DocLengths] : n \in 0..MaxPages}

NextSplit ==
    \/ \E pages \in DocumentLists : SplitDocuments(pages)
    \/ SplitNext

SpecSplit == Init /\ [][NextSplit]_vars

\* The handlers of the chat sessions, interleaved at their awaits.
NextSessions ==
    \/ \E s \in Sessions, ok \in BOOLEAN : on_chat_start(s, ok)
    \/ \E s \in Sessions, kind \in Kinds : on_message(s, kind)
    \/ \E t \in 1..Len(tasks) : main_start(t)
    \/ \E t \in 1..Len(tasks), ok \in BOOLEAN : main_reinit(t, ok)
    \/ \E t \in 1..Len(tasks) : query_snapshot(t)
    \/ \E t \in 1..Len(tasks), ok \in BOOLEAN : query_generate(t, ok)
    \/ \E t \in 1..Len(tasks) : query_append(t)
    \/ \E t \in 1..Len(tasks) : main_reply(t)

SpecSessions == Init /\ [][NextSessions]_vars

\* ---------------------------------------------------------------- claims
\* The run has returned its statistics and the folder is as the run saw it.
Returned == pc = "idle" /\ outcome = "returned" /\ ~dirty

\* The loop of the run is over and its locals are still in place.
LoopDone == pc \in {"batch", "save", "dump"} \/ Returned

\* This run repeats the previous one: same folder, same extension list.
Repeats == outcome = "returned" /\ prev.valid /\ file_extensions = prev.exts

Errors == {stats.processing_errors[k] : k \in 1..Len(stats.processing_errors)}

\* The entry of a file in a log, NoHash when it has none.
LogEntry(log, f) == IF f \in DOMAIN log THEN log[f] ELSE NoHash

\* Number of vectors of the collection with the given provenance.
VectorsOf(source_file, file_hash) ==
    LET own == {v \in BagToSet(index) :
                  v.source_file = source_file /\ v.file_hash = file_hash}
    IN  BagCardinality([v \in own |-> index[v]])

\* C1: a second run with force_reprocess=False over the unchanged folder,
\* after a first run that returned without errors, reports new_files = 0,
\* updated_files = 0, skipped_files = total_files and leaves the number of
\* vectors of the index as the first run left it.
C1_IdempotentReingestion ==
    (Repeats /\ prev.clean /\ ~force_reprocess)
        => /\ stats.new_files = 0
           /\ stats.updated_files = 0
           /\ stats.skipped_files = stats.total_files
           /\ BagCardinality(index) = prev.vectors

\* C2: after a run that reprocessed a modified file and upserted its chunks,
\* every vector of the index whose source_file is that file carries the new
\* fingerprint, and each current chunk has exactly one vector.
C2_ChangeDetectionReplaces ==
    (Returned /\ batch = "ok")
        => \A k \in 1..Len(classes) :
              (/\ classes[k].class = "updated"
               /\ LogEntry(processed_log, classes[k].file) # NoHash
               /\ LogEntry(processed_log, classes[k].file).hash = classes[k].hash)
                  => \A v \in BagToSet(index) :
                        v.source_file = classes[k].file
                            => /\ v.file_hash = classes[k].hash
                               /\ CopiesIn(v, index) = 1

\* C3 as stated: when the Qdrant step of a run fails the manifest file is as it
\* was before the run and the failure is listed in processing_errors; and in
\* the next run over the same folder with force_reprocess=False every file the
\* failed run classified new or updated is classified new or updated again.
C3_BatchFailureRetries_AsStated ==
    /\ (outcome = "returned" /\ batch = "failed")
          => (disk = start_manifest /\ QdrantError \in Errors)
    /\ (Repeats /\ prev.batch = "failed" /\ ~force_reprocess)
          => prev.targets \subseteq NewOrUpdated(classes)

\* C3 amended: the same, for a failed run that was itself started with
\* force_reprocess=False.
C3_BatchFailureRetries ==
    /\ (outcome = "returned" /\ batch = "failed")
          => (disk = start_manifest /\ QdrantError \in Errors)
    /\ (Repeats /\ prev.batch = "failed" /\ ~prev.force /\ ~force_reprocess)
          => prev.targets \subseteq NewOrUpdated(classes)

C3_Witness ==
    /\ Repeats /\ prev.batch = "failed" /\ ~prev.force /\ ~force_reprocess
    /\ prev.targets # {}
    /\ start_manifest.kind = "json"
    /\ disk = start_manifest

\* A file of the folder on which hashing or loading raises.
Fails(f) == ~folder[f].readable \/ (EndsWith(f, PDF) /\ ~folder[f].parses)

\* The folder with every failing file replaced by one that loads.
Repaired(f) == IF Fails(f) THEN Text(1500, 1) ELSE folder[f]

\* The loop of the run over the repaired folder.
RECURSIVE RepairedLoop(_, _)
RepairedLoop(st, k) ==
    IF k > Len(all_files) THEN st
    ELSE RepairedLoop(LoopBody(st, all_files[k], Repaired(all_files[k]), force_reprocess),
                      k + 1)

RepairedRun ==
    RepairedLoop([processed_log |-> load_processed_files_log(start_manifest),
                  all_chunks |-> EmptyBag,
                  stats |-> EmptyStats(Len(all_files)),
                  classes |-> <<>>], 1)

Occurrences(f) == Cardinality({k \in 1..Len(all_files) : all_files[k] = f})

\* C4: at the end of the loop of a run, every file on which hashing or loading
\* raised has one entry in processing_errors per enumeration and the manifest
\* entry it had when the run started (or none); every other file was
\* classified, chunked and logged exactly as in the run over the folder in
\* which the failing files load; the loop visited every enumerated file and
\* the run did not raise.
C4_PerFileErrorIsolation ==
    LoopDone =>
        LET ref == RepairedRun
            start == load_processed_files_log(start_manifest)
        IN  /\ Len(classes) = Len(all_files)
            /\ outcome \in {"running", "returned"}
            /\ \A f \in FileNames :
                  Fails(f) =>
                     /\ Cardinality({k \in 1..Len(stats.processing_errors) :
                                       stats.processing_errors[k] = FileError(f)})
                          = Occurrences(f)
                     /\ LogEntry(processed_log, f) = LogEntry(start, f)
                     /\ \A v \in BagToSet(all_chunks) : v.source_file # f
            /\ \A k \in 1..Len(all_files) :
                  ~Fails(all_files[k]) => classes[k] = ref.classes[k]
            /\ \A f \in FileNames :
                  ~Fails(f) =>
                     /\ LogEntry(processed_log, f) = LogEntry(ref.processed_log, f)
                     /\ \A v \in BagToSet(all_chunks) \cup BagToSet(ref.all_chunks) :
                           v.source_file = f
                              => CopiesIn(v, all_chunks) = CopiesIn(v, ref.all_chunks)

C4_Witness ==
    /\ Returned
    /\ batch = "ok"
    /\ \E f \in FileNames : Occurrences(f) > 0 /\ Fails(f)
    /\ \E k \in 1..Len(classes) :
          /\ classes[k].class \in {"new", "updated"}
          /\ ~Fails(classes[k].file)
          /\ LogEntry(processed_log, classes[k].file) # LogEntry(start_manifest.log, classes[k].file)

\* C5: when a step of query raised, the call returned the dictionary whose
\* answer reports the error, with no source documents and the key 'error' in
\* its metadata; when no step raised, the metadata has no 'error' key and
\* num_sources is the number of source documents.
C5_QueryNeverRaises ==
    (qstate = "Idle" /\ queries > 0)
        => IF failure # "none"
           THEN /\ result.answer = <<"Sorry, I encountered an error: ", failure>>
                /\ result.source_documents = <<>>
                /\ "error" \in DOMAIN result.metadata
           ELSE /\ "error" \notin DOMAIN result.metadata
                /\ result.metadata.num_sources = Len(result.source_documents)
                /\ result.answer = answer.text

C5_Witness ==
    /\ qstate = "Idle"
    /\ failure = "memory"
    /\ "error" \in DOMAIN result.metadata
    /\ memory.messages # <<>>

\* The decision of the change tracker as the specification states it.
TrackerDecision(known, stored_hash, current_hash, force) ==
    IF known /\ stored_hash = current_hash /\ ~force THEN "skip"
    ELSE IF known /\ stored_hash # current_hash THEN "updated"
    ELSE "new"

\* C6: every file the loop classified is skipped iff it is in the manifest
\* with the current hash and force is off, counted in updated_files if it is
\* in the manifest with another hash (with or without force), and counted in
\* new_files otherwise.
C6_ChangeTrackerDecision ==
    \A k \in 1..Len(classes) :
        classes[k].class # "unhashed"
            => classes[k].class =
                  TrackerDecision(classes[k].stored # NoHash, classes[k].stored,
                                  classes[k].hash, force_reprocess)

\* C7: a run that finds an unparsable manifest file does not raise and
\* classifies every file it hashes as new.
C7_ManifestCorruptionFailsClosed ==
    start_manifest.kind = "truncated"
        => /\ outcome # "raised"
           /\ \A k \in 1..Len(classes) : classes[k].class \in {"new", "unhashed"}

\* C8: after a run that returned with no processing error, every file it
\* classified new or updated has an entry in the manifest file with the
\* file's current fingerprint.
C8_ManifestCompleteness ==
    (Returned /\ stats.processing_errors = <<>>)
        => \A f \in NewOrUpdated(classes) :
              /\ disk.kind = "json"
              /\ f \in DOMAIN disk.log
              /\ disk.log[f].hash = get_file_hash(folder[f])

\* C9: the manifest file always holds either the mapping read at the start of
\* the run or the complete mapping the successful run produced.
C9_AtomicManifestPersistence ==
    \/ disk = start_manifest
    \/ batch = "ok" /\ disk = [kind |-> "json", log |-> processed_log]

\* C10: between runs, for every entry of the manifest file, the index holds
\* chunks_count vectors with the entry's file as source_file and the entry's
\* hash.
C10_ManifestReflectsIndex ==
    (pc = "idle" /\ disk.kind = "json")
        => \A p \in DOMAIN disk.log :
              VectorsOf(p, disk.log[p].hash) = disk.log[p].chunks_count

\* C11: after every completed memory append, the tokens of the verbatim turns
\* held in the memory plus the tokens of the running summary are at most
\* memory_max_tokens.
C11_MemoryBounded ==
    qstate = "Idle"
        => NumTokens(memory.messages) + memory.moving_summary_buffer
               <= MemoryMaxTokenLimit

\* The chain a coroutine or a session holds was made by that session.
OwnChain(c, s) == c # NoChain => chain_memory[c].session = s

\* Every session has a chain of its own, and the handlers of a session read
\* and write only the memory of a chain of that session.
SessionsIsolated ==
    /\ \A s1, s2 \in Sessions :
          (s1 # s2 /\ user_session[s1] # NoChain)
              => user_session[s1] # user_session[s2]
    /\ \A s \in Sessions : OwnChain(user_session[s], s)
    /\ \A c \in 1..Len(chain_memory) :
          \A k \in 1..Len(chain_memory[c].messages) :
              chain_memory[c].messages[k][1] = chain_memory[c].session
    /\ \A t \in 1..Len(tasks) : OwnChain(tasks[t].rag_chain, tasks[t].session)

\* From the moment a query reads the memory to the moment it returns, nothing
\* else changes that memory: it leaves what it read plus its own turn.
QueriesSerialized ==
    \A t \in 1..Len(tasks) :
        /\ tasks[t].at \in {"generating", "appending"}
              => chain_memory[tasks[t].rag_chain].messages = tasks[t].snapshot
        /\ tasks[t].at = "returned"
              => chain_memory[tasks[t].rag_chain].messages
                     = Append(tasks[t].snapshot, Turn(t))

\* Every turn a session appended since its last clear is in its memory.
NoTurnLost ==
    \A s \in Sessions : \A turn \in turns[s] :
        /\ user_session[s] # NoChain
        /\ \E k \in 1..Len(chain_memory[user_session[s]].messages) :
              chain_memory[user_session[s]].messages[k] = turn

\* C12: every session has its own chain and memory, no handler touches the
\* memory of another session, the read-modify-write of a query interleaves
\* with no other query or clear on the same memory, and no turn a session
\* appended is lost.
C12_MemorySerializedPerSession ==
    SessionsIsolated /\ QueriesSerialized /\ NoTurnLost

\* The step order of one query() call.
StepOrder ==
    {<<"Idle", "Retrieving">>, <<"Retrieving", "Compressing">>,
     <<"Compressing", "Generating">>, <<"Generating", "UpdatingMemory">>,
     <<"UpdatingMemory", "Idle">>}

\* The memory changes only when the turn is saved after the answer has been
\* generated, or when it is cleared between queries.
AppendsAfterGeneration ==
    memory' # memory
        => \/ qstate = "UpdatingMemory" /\ qstate' = "Idle" /\ answer # NoAnswer
           \/ qstate = "Idle" /\ qstate' = "Idle" /\ memory' = EmptyMemory

\* C13 as stated: every step of the engine is the next one of Idle,
\* Retrieving, Compressing, Generating, Updating-Memory, Idle, also in a call
\* that returns an error result, and the memory is appended to only after
\* generation.
C13_PerQueryStepOrder_AsStated ==
    [][/\ qstate' # qstate => <<qstate, qstate'>> \in StepOrder
       /\ AppendsAfterGeneration]_vars

\* C13: every step of the engine is the next one of Idle, Retrieving,
\* Compressing, Generating, Updating-Memory, Idle, or it is the failure of the
\* current step, which returns the error result and leaves the engine Idle
\* with the remaining steps not taken; a call that leaves Updating-Memory
\* without a failure returns the generated answer; no step is repeated, and
\* the memory is appended to at most once per call, after generation.
C13_PerQueryStepOrder ==
    [][/\ qstate' # qstate
          => \/ /\ <<qstate, qstate'>> \in StepOrder
                /\ failure' = "none" => result' = IF qstate' = "Idle"
                                                  THEN EnhancedResult(answer, docs, memory')
                                                  ELSE result
             \/ /\ qstate # "Idle" /\ qstate' = "Idle"
                /\ failure' # "none"
                /\ result' = ErrorResult(failure')
       /\ qstate' = qstate => qstate = "Idle"
       /\ failure' # "none" => qstate' = "Idle"
       /\ AppendsAfterGeneration]_vars

\* A call has returned an error result after an earlier call had appended
\* its turn to the memory.
C13_Witness ==
    /\ qstate = "Idle"
    /\ failure \in {"retrieval", "compression", "generation"}
    /\ result = ErrorResult(failure)
    /\ memory.messages # <<>>

\* C14: a document of 5001 characters is split with chunk_size 1200 and
\* overlap 150, a document of 5000 characters or less with chunk_size 800 and
\* overlap 100; every document gets exactly one of the two splitters, and two
\* documents of the same length get the same one, whatever else is in the list.
C14_SizePolicySwitch ==
    \A k \in 1..Len(splitter) :
        /\ splitter[k] \in {"default", "large"}
        /\ documents[k] = 5001
              => splitters[splitter[k]] = [chunk_size |-> 1200, chunk_overlap |-> 150]
        /\ documents[k] >= 5001 => splitter[k] = "large"
        /\ documents[k] <= 5000
              => /\ splitter[k] = "default"
                 /\ splitters[splitter[k]] = [chunk_size |-> 800, chunk_overlap |-> 100]
        /\ split_chunks[k] = SplitCount(documents[k], splitters[splitter[k]].chunk_size,
                                        splitters[splitter[k]].chunk_overlap)
        /\ \A j \in 1..Len(splitter) :
              documents[j] = documents[k] => splitter[j] = splitter[k]

\* One call has split a document of 5000 and a document of 5001 characters.
C14_Witness ==
    \E j, k \in 1..Len(splitter) :
        /\ documents[j] = 5000 /\ splitter[j] = "default"
        /\ documents[k] = 5001 /\ splitter[k] = "large"

\* The number of enumerated entries the loop put in a class.
InClass(c) == Cardinality({k \in 1..Len(classes) : classes[k].class = c})

\* The chunks of the entries cs whose file the loop loaded and split.
RECURSIVE ChunksOfLoaded(_)
ChunksOfLoaded(cs) ==
    IF cs = <<>> THEN 0
    ELSE (IF /\ Head(cs).class \in {"new", "updated"}
             /\ EndsWith(Head(cs).file, PDF)
             /\ folder[Head(cs).file].parses
          THEN enhanced_text_splitting(folder[Head(cs).file].len)
          ELSE 0) + ChunksOfLoaded(Tail(cs))

Counted == stats.new_files + stats.updated_files + stats.skipped_files

\* C15: every enumerated entry is counted in at most one of new_files,
\* updated_files and skipped_files, so their sum is at most total_files, and
\* equal to it less the entries whose hashing failed once the loop is over;
\* total_chunks is the number of chunks accumulated from the processed files
\* when the batch upsert succeeded, and 0 when it failed or no chunk was
\* produced.
C15_StatisticsAccounting ==
    /\ stats.new_files = InClass("new")
    /\ stats.updated_files = InClass("updated")
    /\ stats.skipped_files = InClass("skip")
    /\ Len(classes) <= stats.total_files
    /\ Counted <= stats.total_files
    /\ (LoopDone /\ outcome # "raised")
          => /\ Len(classes) = stats.total_files
             /\ Counted = stats.total_files - InClass("unhashed")
    /\ batch = "ok"
          => /\ stats.total_chunks = BagCardinality(all_chunks)
             /\ stats.total_chunks > 0
             /\ Returned => stats.total_chunks = ChunksOfLoaded(classes)
    /\ batch \in {"failed", "empty", "none"} => stats.total_chunks = 0
    /\ batch = "empty" => all_chunks = EmptyBag
    /\ batch = "failed" => all_chunks # EmptyBag

\* A run has returned after a successful upsert, with one file whose hashing
\* failed and so fewer files counted than enumerated.
C15_Witness ==
    /\ Returned
    /\ batch = "ok"
    /\ stats.total_chunks > 0
    /\ InClass("unhashed") > 0
    /\ Counted > 0
    /\ Counted < stats.total_files

====
